---- MODULE Spec2Model ----
(***************************************************************************)
(* Model of the master/slave MQTT data-processing node.                    *)
(*   src/src/common.rs      DataPayload, DataPacket, DataResponse          *)
(*   src/src/bin/slave.rs   ProcessingMetrics, process_data,               *)
(*                          FlexiblePacket, convert_payload, consume loop  *)
(*   src/src/bin/master.rs  producer of DataPacket envelopes               *)
(*                                                                         *)
(* Representation.                                                         *)
(*  - JSON text is a tree of records tagged t \in {"Null","Bool","Number", *)
(*    "String","Array","Object"}.  On the wire an Object is a sequence of  *)
(*    <<key, value>> pairs (document order, duplicates possible); once     *)
(*    parsed into serde_json::Value it is a map from keys to values.       *)
(*  - A JSON number carries int (written without fraction/exponent) and c, *)
(*    its value in hundredths.  An f64 is its value in hundredths.         *)
(*    TLC integers are 32 bits wide, so the upper limits of u32 and u64    *)
(*    are outside the modelled value range; the limits of u8 are kept.     *)
(*  - Strings are TLA+ strings; "h\\u00E9llo" stands for the JSON text of  *)
(*    a five-character string whose second character takes two bytes.      *)
(***************************************************************************)
EXTENDS Integers, Sequences, FiniteSets, TLC

\* ------------------------------------------------------------------ bounds
\* Number of notifications the consume loop takes from connection.iter().
MaxEvents == 2
MaxBurst == 21
\* Number of concurrent callers in the record stress specification.
NCallers == 7

\* --------------------------------------------------------- JSON wire text
JNull == [t |-> "Null"]
JBool(b) == [t |-> "Bool", b |-> b]
JInt(i) == [t |-> "Number", int |-> TRUE, c |-> i * 100]
JFloat(c) == [t |-> "Number", int |-> FALSE, c |-> c]
JStr(s) == [t |-> "String", s |-> s]
JArr(a) == [t |-> "Array", a |-> a]
JObj(pairs) == [t |-> "Object", pairs |-> pairs]

\* Keys of a wire object.
PairKeys(pairs) == {pairs[i][1] : i \in 1..Len(pairs)}
\* serde_json's Map::insert: a later duplicate key replaces the earlier one.
LastIndex(pairs, k) ==
    CHOOSE i \in 1..Len(pairs) :
        /\ pairs[i][1] = k
        /\ \A j \in (i + 1)..Len(pairs) : pairs[j][1] # k

\* serde_json text -> serde_json::Value (the payload: Value field).
RECURSIVE ParseValue(_)
ParseValue(j) ==
    CASE j.t = "Object" ->
           [t |-> "Object",
            map |-> [k \in PairKeys(j.pairs) |->
                        ParseValue(j.pairs[LastIndex(j.pairs, k)][2])]]
      [] j.t = "Array" ->
           [t |-> "Array", a |-> [i \in 1..Len(j.a) |-> ParseValue(j.a[i])]]
      [] OTHER -> j

\* ------------------------------------------------------ chrono timestamps
\* DateTime<Utc> is an instant; instants are numbered.  The RFC 3339 texts
\* below are the ones the model uses; three of them denote instant 0.
TsCanon0 == "2024-05-01T10:00:00+00:00"
TsZulu0 == "2024-05-01T10:00:00Z"
TsOffset0 == "2024-05-01T12:00:00+02:00"
TsCanon1 == "2024-05-01T10:00:01+00:00"
TsBad == "yesterday"

\* <DateTime<Utc> as Deserialize>: parse an RFC 3339 text, convert to UTC.
IsRfc3339(s) == s \in {TsCanon0, TsZulu0, TsOffset0, TsCanon1}
ParseRfc3339(s) == IF s = TsCanon1 THEN 1 ELSE 0
\* DateTime<Utc>::to_rfc3339: always written with the +00:00 offset.
ToRfc3339(instant) == IF instant = 1 THEN TsCanon1 ELSE TsCanon0

\* ------------------------------------------------- serde field decoders
IsString(v) == v.t = "String"
IsF64(v) == v.t = "Number"
AsF64(v) == v.c
IsU32(v) == v.t = "Number" /\ v.int /\ v.c >= 0
AsU32(v) == v.c \div 100
IsU8(v) == v.t = "Number" /\ v.int /\ v.c >= 0 /\ v.c \div 100 <= 255
IsVecU8(v) == v.t = "Array" /\ \A i \in 1..Len(v.a) : IsU8(v.a[i])
AsVecU8(v) == [i \in 1..Len(v.a) |-> v.a[i].c \div 100]
IsDateTime(v) == v.t = "String" /\ IsRfc3339(v.s)
AsDateTime(v) == ParseRfc3339(v.s)

\* A derived struct visitor over a Value: a map with every required field
\* (unknown keys ignored), or a sequence with exactly one element per field.
StructShape(v, names) ==
    \/ v.t = "Object" /\ \A i \in 1..Len(names) : names[i] \in DOMAIN v.map
    \/ v.t = "Array" /\ Len(v.a) = Len(names)
StructGet(v, names, i) == IF v.t = "Object" THEN v.map[names[i]] ELSE v.a[i]

ImageFields == <<"width", "height", "format", "data">>
SensorFields == <<"sensor_id", "temperature", "humidity", "pressure">>
CoordFields == <<"x", "y", "z">>
LogFields == <<"level", "message", "timestamp">>

\* serde_json::from_value::<ImageData>
ImageDataOk(v) ==
    /\ StructShape(v, ImageFields)
    /\ IsU32(StructGet(v, ImageFields, 1))
    /\ IsU32(StructGet(v, ImageFields, 2))
    /\ IsString(StructGet(v, ImageFields, 3))
    /\ IsVecU8(StructGet(v, ImageFields, 4))
\* serde_json::from_value::<SensorData>
SensorDataOk(v) ==
    /\ StructShape(v, SensorFields)
    /\ IsString(StructGet(v, SensorFields, 1))
    /\ IsF64(StructGet(v, SensorFields, 2))
    /\ IsF64(StructGet(v, SensorFields, 3))
    /\ IsF64(StructGet(v, SensorFields, 4))
\* serde_json::from_value::<Coordinates>
CoordinatesOk(v) ==
    /\ StructShape(v, CoordFields)
    /\ \A i \in 1..3 : IsF64(StructGet(v, CoordFields, i))
\* serde_json::from_value::<LogEntry>
LogEntryOk(v) ==
    /\ StructShape(v, LogFields)
    /\ IsString(StructGet(v, LogFields, 1))
    /\ IsString(StructGet(v, LogFields, 2))
    /\ IsDateTime(StructGet(v, LogFields, 3))

\* --------------------------------------------------------- DataPayload
Text(s) == [kind |-> "Text", text |-> s]
Number(n) == [kind |-> "Number", num |-> n]
Coordinates(x, y, z) == [kind |-> "Coordinates", x |-> x, y |-> y, z |-> z]
SensorData(id, te, hu, pr) ==
    [kind |-> "SensorData", sensor_id |-> id, temperature |-> te,
     humidity |-> hu, pressure |-> pr]
ImageData(w, h, f, d) ==
    [kind |-> "ImageData", width |-> w, height |-> h, format |-> f, data |-> d]
LogEntry(l, m, ts) ==
    [kind |-> "LogEntry", level |-> l, message |-> m, timestamp |-> ts]
\* Option::None of convert_payload.
NotRecognized == [kind |-> "None"]

Kinds == {"Text", "Number", "Coordinates", "SensorData", "ImageData", "LogEntry"}

\* ------------------------------------------------------ convert_payload
TextBranch(value) ==
    /\ "Text" \in DOMAIN value.map
    /\ IsString(value.map["Text"])
ImageBranch(value) ==
    /\ "ImageData" \in DOMAIN value.map
    /\ ImageDataOk(value.map["ImageData"])
SensorBranch(value) ==
    /\ "SensorData" \in DOMAIN value.map
    /\ SensorDataOk(value.map["SensorData"])
CoordBranch(value) ==
    /\ "Coordinates" \in DOMAIN value.map
    /\ CoordinatesOk(value.map["Coordinates"])
LogBranch(value) ==
    /\ "LogEntry" \in DOMAIN value.map
    /\ LogEntryOk(value.map["LogEntry"])

TextOf(v) == Text(v.s)
ImageOf(v) ==
    ImageData(AsU32(StructGet(v, ImageFields, 1)),
              AsU32(StructGet(v, ImageFields, 2)),
              StructGet(v, ImageFields, 3).s,
              AsVecU8(StructGet(v, ImageFields, 4)))
SensorOf(v) ==
    SensorData(StructGet(v, SensorFields, 1).s,
               AsF64(StructGet(v, SensorFields, 2)),
               AsF64(StructGet(v, SensorFields, 3)),
               AsF64(StructGet(v, SensorFields, 4)))
CoordOf(v) ==
    Coordinates(AsF64(StructGet(v, CoordFields, 1)),
                AsF64(StructGet(v, CoordFields, 2)),
                AsF64(StructGet(v, CoordFields, 3)))
LogOf(v) ==
    LogEntry(StructGet(v, LogFields, 1).s,
             StructGet(v, LogFields, 2).s,
             ToRfc3339(AsDateTime(StructGet(v, LogFields, 3))))

\* Variants of convert_payload with a plausible slip, used to test that the
\* decoder properties below depend on the decoder.
\* (a) the Coordinates attempt placed before the SensorData attempt.
convert_payload_swapped(value) ==
    IF value.t # "Object" THEN NotRecognized
    ELSE IF TextBranch(value) THEN TextOf(value.map["Text"])
    ELSE IF ImageBranch(value) THEN ImageOf(value.map["ImageData"])
    ELSE IF CoordBranch(value) THEN CoordOf(value.map["Coordinates"])
    ELSE IF SensorBranch(value) THEN SensorOf(value.map["SensorData"])
    ELSE IF LogBranch(value) THEN LogOf(value.map["LogEntry"])
    ELSE NotRecognized
\* (b) a failed structural decode returns None (the ? operator) instead of
\*     falling through to the next tag.
convert_payload_abort(value) ==
    IF value.t # "Object" THEN NotRecognized
    ELSE IF TextBranch(value) THEN TextOf(value.map["Text"])
    ELSE IF "ImageData" \in DOMAIN value.map THEN
        (IF ImageBranch(value) THEN ImageOf(value.map["ImageData"])
         ELSE NotRecognized)
    ELSE IF "SensorData" \in DOMAIN value.map THEN
        (IF SensorBranch(value) THEN SensorOf(value.map["SensorData"])
         ELSE NotRecognized)
    ELSE IF "Coordinates" \in DOMAIN value.map THEN
        (IF CoordBranch(value) THEN CoordOf(value.map["Coordinates"])
         ELSE NotRecognized)
    ELSE IF LogBranch(value) THEN LogOf(value.map["LogEntry"])
    ELSE NotRecognized
\* (c) a bare JSON string accepted as the "simple format" of Text.
convert_payload_bare(value) ==
    IF value.t = "String" THEN Text(value.s)
    ELSE IF value.t # "Object" THEN NotRecognized
    ELSE IF TextBranch(value) THEN TextOf(value.map["Text"])
    ELSE IF ImageBranch(value) THEN ImageOf(value.map["ImageData"])
    ELSE IF SensorBranch(value) THEN SensorOf(value.map["SensorData"])
    ELSE IF CoordBranch(value) THEN CoordOf(value.map["Coordinates"])
    ELSE IF LogBranch(value) THEN LogOf(value.map["LogEntry"])
    ELSE NotRecognized
\* (d) a branch for the Number key added after the Text branch.
convert_payload_number(value) ==
    IF value.t # "Object" THEN NotRecognized
    ELSE IF TextBranch(value) THEN TextOf(value.map["Text"])
    ELSE IF "Number" \in DOMAIN value.map /\ IsF64(value.map["Number"])
         THEN Number(AsF64(value.map["Number"]))
    ELSE IF ImageBranch(value) THEN ImageOf(value.map["ImageData"])
    ELSE IF SensorBranch(value) THEN SensorOf(value.map["SensorData"])
    ELSE IF CoordBranch(value) THEN CoordOf(value.map["Coordinates"])
    ELSE IF LogBranch(value) THEN LogOf(value.map["LogEntry"])
    ELSE NotRecognized

convert_payload(value) ==
    IF value.t # "Object" THEN NotRecognized
    ELSE IF TextBranch(value) THEN TextOf(value.map["Text"])
    ELSE IF ImageBranch(value) THEN ImageOf(value.map["ImageData"])
    ELSE IF SensorBranch(value) THEN SensorOf(value.map["SensorData"])
    ELSE IF CoordBranch(value) THEN CoordOf(value.map["Coordinates"])
    ELSE IF LogBranch(value) THEN LogOf(value.map["LogEntry"])
    ELSE NotRecognized

\* ---------------------------------------- serde Serialize (the producer)
\* f64 is written with a fraction, u32 and u8 without.
EncF64(c) == JFloat(c)
EncU32(n) == JInt(n)
EncBytes(d) == JArr([i \in 1..Len(d) |-> JInt(d[i])])

\* #[derive(Serialize)] enum DataPayload: externally tagged, one key.
EncodePayload(p) ==
    CASE p.kind = "Text" -> JObj(<< <<"Text", JStr(p.text)>> >>)
      [] p.kind = "Number" -> JObj(<< <<"Number", EncF64(p.num)>> >>)
      [] p.kind = "Coordinates" ->
           JObj(<< <<"Coordinates",
                     JObj(<< <<"x", EncF64(p.x)>>, <<"y", EncF64(p.y)>>,
                             <<"z", EncF64(p.z)>> >>)>> >>)
      [] p.kind = "SensorData" ->
           JObj(<< <<"SensorData",
                     JObj(<< <<"sensor_id", JStr(p.sensor_id)>>,
                             <<"temperature", EncF64(p.temperature)>>,
                             <<"humidity", EncF64(p.humidity)>>,
                             <<"pressure", EncF64(p.pressure)>> >>)>> >>)
      [] p.kind = "ImageData" ->
           JObj(<< <<"ImageData",
                     JObj(<< <<"width", EncU32(p.width)>>,
                             <<"height", EncU32(p.height)>>,
                             <<"format", JStr(p.format)>>,
                             <<"data", EncBytes(p.data)>> >>)>> >>)
      [] p.kind = "LogEntry" ->
           JObj(<< <<"LogEntry",
                     JObj(<< <<"level", JStr(p.level)>>,
                             <<"message", JStr(p.message)>>,
                             <<"timestamp", JStr(p.timestamp)>> >>)>> >>)

\* master.rs: the data_type label chosen for a payload.
DataTypeLabel(p) ==
    CASE p.kind = "Text" -> "text"
      [] p.kind = "Number" -> "number"
      [] p.kind = "Coordinates" -> "coordinates"
      [] p.kind = "SensorData" -> "sensor_data"
      [] p.kind = "ImageData" -> "image_data"
      [] p.kind = "LogEntry" -> "log_entry"

\* master.rs: the DataPacket built and serialized for one payload.
MasterPacket(id, ts, p) ==
    JObj(<< <<"id", JStr(id)>>,
            <<"timestamp", JStr(ts)>>,
            <<"data_type", JStr(DataTypeLabel(p))>>,
            <<"payload", EncodePayload(p)>>,
            <<"metadata", JObj(<< <<"source", JStr("master-node")>>,
                                  <<"version", JStr("1.0")>> >>)>> >>)

\* ------------------------------------------------------------ process_data
\* str::len: the length of the UTF-8 encoding in bytes.
Utf8Len(s) ==
    CASE s = "" -> 0
      [] s = "hi" -> 2
      [] s = "hello" -> 5
      [] s = "h\\u00E9llo" -> 6
      [] OTHER -> Len(s)
\* The number of characters (Unicode scalar values) of the same strings.
CharCount(s) ==
    CASE s = "" -> 0
      [] s = "hi" -> 2
      [] s = "hello" -> 5
      [] s = "h\\u00E9llo" -> 5
      [] OTHER -> Len(s)

\* format!("{:.2}") of an f64 held in hundredths: both decimals are kept.
Fmt2(c) == c
\* format!("{:.1}"): hundredths to tenths, to nearest, an exact tie to even.
\* (The model's f64 values are multiples of 0.25, which binary holds exactly.)
Fmt1(c) ==
    LET a == IF c < 0 THEN -c ELSE c
        q == a \div 10
        r == a % 10
        up == r > 5 \/ (r = 5 /\ q % 2 = 1)
        m == IF up THEN q + 1 ELSE q
    IN  IF c < 0 THEN -m ELSE m
\* Largest r in lo..hi with r * r <= n (lo * lo <= n assumed).
RECURSIVE FloorSqrt(_, _, _)
FloorSqrt(n, lo, hi) ==
    IF lo = hi THEN lo
    ELSE LET mid == (lo + hi + 1) \div 2
         IN  IF mid * mid <= n THEN FloorSqrt(n, mid, hi)
             ELSE FloorSqrt(n, lo, mid - 1)
\* f64::sqrt of a sum of squares, then {:.2}: the distance in hundredths,
\* to nearest.  sumsq is in units of 1/10000; the root of 4 * sumsq is twice
\* the distance in hundredths.
SqrtFmt2(sumsq) == (FloorSqrt(4 * sumsq, 0, 4000) + 1) \div 2

process_data(payload) ==
    CASE payload.kind = "Text" ->
           [msg |-> "Text processed: {} chars", chars |-> Utf8Len(payload.text)]
      [] payload.kind = "Number" ->
           [msg |-> "Number processed: {:.2}", number |-> Fmt2(payload.num)]
      [] payload.kind = "Coordinates" ->
           [msg |-> "Coordinates processed: distance from origin = {:.2}",
            distance |-> SqrtFmt2(payload.x * payload.x + payload.y * payload.y
                                  + payload.z * payload.z)]
      [] payload.kind = "SensorData" ->
           [msg |-> "Sensor data processed: temp={:.1}C, humidity={:.1}%, pressure={:.1}hPa",
            temp |-> Fmt1(payload.temperature),
            humidity |-> Fmt1(payload.humidity),
            pressure |-> Fmt1(payload.pressure)]
      [] payload.kind = "ImageData" ->
           [msg |-> "Image processed: {} bytes", bytes |-> Len(payload.data)]
      [] payload.kind = "LogEntry" ->
           [msg |-> "Log entry processed at {}", at |-> payload.timestamp]

\* ---------------------------------------------------------- FlexiblePacket
\* An inbound publish is either bytes that are not JSON at all, or JSON text.
Garbage == [t |-> "Garbage"]
PacketFields == {"id", "timestamp", "data_type", "payload", "metadata"}

Occurrences(pairs, k) == Cardinality({i \in 1..Len(pairs) : pairs[i][1] = k})
Has(pairs, k) == k \in PairKeys(pairs)
Get(pairs, k) == pairs[LastIndex(pairs, k)][2]

\* Option<T> with #[serde(default)]: a missing key or null is None.
OptAbsent(pairs, k) == ~Has(pairs, k) \/ Get(pairs, k).t = "Null"

\* struct Metadata: both fields String with #[serde(default)].
MetadataOk(j) ==
    /\ j.t = "Object"
    /\ \A k \in {"source", "version"} :
          /\ Occurrences(j.pairs, k) <= 1
          /\ Has(j.pairs, k) => IsString(Get(j.pairs, k))

\* serde_json::from_str::<FlexiblePacket> succeeds.
PacketOk(raw) ==
    /\ raw.t = "Object"
    /\ \A k \in PacketFields : Occurrences(raw.pairs, k) <= 1
    /\ Has(raw.pairs, "id") /\ IsString(Get(raw.pairs, "id"))
    /\ OptAbsent(raw.pairs, "timestamp") \/ IsDateTime(Get(raw.pairs, "timestamp"))
    /\ OptAbsent(raw.pairs, "data_type") \/ IsString(Get(raw.pairs, "data_type"))
    /\ Has(raw.pairs, "payload")
    /\ OptAbsent(raw.pairs, "metadata") \/ MetadataOk(Get(raw.pairs, "metadata"))

\* Variant of ParsePacket with a plausible slip: under the label "text" only
\* the Text entry of the payload is kept.
ParsePacket_labelled(raw) ==
    LET p == Get(raw.pairs, "payload")
        IsTextEntry(pr) == pr[1] = "Text"
        labelled == /\ Has(raw.pairs, "data_type")
                    /\ Get(raw.pairs, "data_type") = JStr("text")
                    /\ p.t = "Object"
    IN  [id |-> Get(raw.pairs, "id").s,
         payload |-> IF labelled
                     THEN ParseValue(JObj(SelectSeq(p.pairs, IsTextEntry)))
                     ELSE ParseValue(p)]

\* The fields of the parsed packet that the loop goes on to use.
ParsePacket(raw) ==
    [id |-> Get(raw.pairs, "id").s,
     payload |-> ParseValue(Get(raw.pairs, "payload"))]

\* serde_json::from_str::<FlexiblePacket>: Result<FlexiblePacket, Error>.
from_str(raw) ==
    IF PacketOk(raw) THEN [ok |-> TRUE, packet |-> ParsePacket(raw)]
    ELSE [ok |-> FALSE]

\* ------------------------------------------------------- ProcessingMetrics
\* ProcessingMetrics::new
NewMetrics ==
    [processed_count |-> 0, total_processing_time |-> 0, text_count |-> 0,
     number_count |-> 0, coordinates_count |-> 0, sensor_count |-> 0,
     image_count |-> 0, log_count |-> 0]

\* Variant of FetchAdd with a plausible slip: store in place of fetch_add.
FetchAdd_store(old, n) == n
\* AtomicU64::fetch_add: one indivisible read-modify-write; the new value.
FetchAdd(old, n) == old + n

\* Variant of CounterOf with a plausible slip: the counters of the
\* Coordinates arm and of the SensorData arm exchanged.
CounterOf_swapped(kind) ==
    CASE kind = "Text" -> "text_count"
      [] kind = "Number" -> "number_count"
      [] kind = "Coordinates" -> "sensor_count"
      [] kind = "SensorData" -> "coordinates_count"
      [] kind = "ImageData" -> "image_count"
      [] kind = "LogEntry" -> "log_count"

\* The counter update_count selects for a payload.
CounterOf(kind) ==
    CASE kind = "Text" -> "text_count"
      [] kind = "Number" -> "number_count"
      [] kind = "Coordinates" -> "coordinates_count"
      [] kind = "SensorData" -> "sensor_count"
      [] kind = "ImageData" -> "image_count"
      [] kind = "LogEntry" -> "log_count"

\* Variant of update_count with a plausible slip: the ImageData arm missing
\* from the match (caught by a wildcard arm that counts nothing).
update_count_partial(m, payload) ==
    IF payload.kind = "ImageData" THEN m
    ELSE [m EXCEPT ![CounterOf(payload.kind)] = FetchAdd(@, 1)]

\* ProcessingMetrics::update_count
update_count(m, payload) ==
    [m EXCEPT ![CounterOf(payload.kind)] = FetchAdd(@, 1)]

\* metrics.processed_count.fetch_add(1, Relaxed)
CountProcessed(m) == [m EXCEPT !.processed_count = FetchAdd(@, 1)]
\* Variant of AddProcessingTime with a plausible slip: store in place of
\* fetch_add.
AddProcessingTime_store(m, ms) == [m EXCEPT !.total_processing_time = ms]
\* metrics.total_processing_time.fetch_add(processing_time, Relaxed)
AddProcessingTime(m, ms) == [m EXCEPT !.total_processing_time = FetchAdd(@, ms)]

VariantSum(m) ==
    m.text_count + m.number_count + m.coordinates_count + m.sensor_count
    + m.image_count + m.log_count

\* --------------------------------------------------------------- inputs
\* start_time.elapsed().as_millis() as observed by the loop.
ElapsedSamples == {0, 3}

\* Payloads of the shapes generate_random_data produces.
SampleText == Text("hello")
SampleNumber == Number(4225)
SampleCoordinates == Coordinates(300, 400, 0)
SampleSensor == SensorData("SENSOR_1", 2125, 5075, 101300)
SampleImage == ImageData(640, 480, "RGB", <<0, 255>>)
SampleLog == LogEntry("INFO", "Log message 1", TsCanon0)
SamplePayloads ==
    {SampleText, SampleNumber, SampleCoordinates, SampleSensor, SampleImage,
     SampleLog}

Envelope(id, payload) == JObj(<< <<"id", JStr(id)>>, <<"payload", payload>> >>)

\* Inbound publishes on data/request: the producer's packets and others.
MasterMessages ==
    {MasterPacket("a", TsCanon0, p) : p \in SamplePayloads}
    \cup {MasterPacket("b", TsCanon1, SampleText)}
ForeignMessages ==
    { Garbage,
      JObj(<< <<"payload", EncodePayload(SampleText)>> >>),
      JObj(<< <<"id", JStr("b")>> >>),
      JObj(<< <<"id", JStr("b")>>, <<"timestamp", JStr(TsBad)>>,
              <<"payload", EncodePayload(SampleText)>> >>),
      Envelope("b", JObj(<<>>)),
      Envelope("b", JObj(<< <<"Text", JInt(5)>>,
                            <<"LogEntry", EncodePayload(SampleLog).pairs[1][2]>> >>)),
      JObj(<< <<"id", JStr("b")>>, <<"data_type", JStr("text")>>,
              <<"payload", EncodePayload(SampleSensor)>> >>) }
Messages == MasterMessages \cup ForeignMessages

\* ---------------------------------------------------------------- state
VARIABLES
    pc,               \* position of the processing thread in its loop
    nevents,          \* notifications taken from connection.iter()
    cur,              \* publish.payload of the notification being handled
    packet,           \* the parsed FlexiblePacket
    data_payload,     \* the Option<DataPayload> convert_payload returned
    result,           \* the String process_data returned
    processing_time,  \* start_time.elapsed().as_millis()
    response,         \* the DataResponse built
    metrics,          \* the shared ProcessingMetrics
    requests,         \* every client.publish call, in order
    log,              \* lines written to stdout and stderr, in order
    now,              \* wall clock, in milliseconds
    recv_at,          \* wall clock when the current notification arrived
    arrivals,         \* every notification taken from the iterator, in order
    input,            \* decoder check: the payload text handed in
    output,           \* decoder check: what convert_payload returned
    stage,            \* decoder check: "call" before, "ret" after
    callers,          \* record stress: position and arguments of each caller
    request_tx        \* requests waiting in the client's request channel

vars ==
    <<pc, nevents, cur, packet, data_payload, result, processing_time,
      response, metrics, requests, log, now, recv_at, arrivals, input,
      output, stage, callers, request_tx>>
loopVars ==
    <<pc, nevents, cur, packet, data_payload, result, processing_time,
      response, requests, log, now, recv_at, arrivals, request_tx>>
decodeVars == <<input, output, stage>>

\* Client::new(mqtt_options, 20): the capacity of the request channel.
RequestCap == 20

NoValue == [t |-> "None"]
\* Notifications other than an incoming publish.
OtherEvent == [t |-> "Other"]
\* The notification the event loop yields for a request it took out of the
\* request channel and wrote to the network.
OutgoingEvent == [t |-> "Outgoing"]
ConnectionError == [t |-> "ConnErr"]
Stdout(text) == [ch |-> "stdout", text |-> text]
Stderr(text) == [ch |-> "stderr", text |-> text]

InitLoop ==
    /\ pc = "iter"
    /\ nevents = 0
    /\ cur = NoValue
    /\ packet = NoValue
    /\ data_payload = NotRecognized
    /\ result = NoValue
    /\ processing_time = 0
    /\ response = NoValue
    /\ requests = <<>>
    /\ log = <<>>
    /\ now = 0
    /\ recv_at = 0
    /\ arrivals = <<>>
    /\ request_tx = 1
InitDecodeIdle ==
    /\ input = NoValue
    /\ output = NotRecognized
    /\ stage = "idle"
InitCallersIdle == callers = <<>>

Init ==
    /\ InitLoop
    /\ metrics = NewMetrics
    /\ InitDecodeIdle
    /\ InitCallersIdle

\* ------------------------------------------------- the processing thread
\* Variant of RecvPublish with a plausible slip: the next publish is taken
\* while the response to the current one has not been handed over yet.
RecvPublish_eager ==
    /\ pc \in {"iter", "publish"}
    /\ nevents < MaxEvents
    /\ \E raw \in Messages :
          /\ cur' = raw
          /\ arrivals' = Append(arrivals, raw)
    /\ nevents' = nevents + 1
    /\ recv_at' = now
    /\ log' = log \o << Stdout("Received message on topic"),
                        Stdout("Attempting to parse message") >>
    /\ pc' = "parse"
    /\ UNCHANGED <<packet, data_payload, result, processing_time, response,
                   metrics, requests, now, input, output, stage, callers,
                   request_tx>>

\* connection.iter() yields Ok(Event::Incoming(Packet::Publish(publish))).
RecvPublish ==
    /\ pc = "iter"
    /\ nevents < MaxEvents
    /\ \E raw \in Messages :
          /\ cur' = raw
          /\ arrivals' = Append(arrivals, raw)
    /\ nevents' = nevents + 1
    /\ recv_at' = now
    /\ log' = log \o << Stdout("Received message on topic"),
                        Stdout("Attempting to parse message") >>
    /\ pc' = "parse"
    /\ UNCHANGED <<packet, data_payload, result, processing_time, response,
                   metrics, requests, now, input, output, stage, callers,
                   request_tx>>

\* connection.iter() yields Ok(other).
RecvOther ==
    /\ pc = "iter"
    /\ nevents < MaxEvents
    /\ nevents' = nevents + 1
    /\ arrivals' = Append(arrivals, OtherEvent)
    /\ log' = Append(log, Stdout("Received other MQTT event"))
    /\ UNCHANGED <<pc, cur, packet, data_payload, result, processing_time,
                   response, metrics, requests, now, recv_at, input, output,
                   stage, callers,
                   request_tx>>

\* connection.iter() yields Ok(Event::Outgoing(..)): inside the iterator the
\* event loop has taken one request out of the request channel. The
\* iterator is the only place where the channel is drained.
RecvOutgoing ==
    /\ pc = "iter"
    /\ nevents < MaxEvents
    /\ request_tx > 0
    /\ request_tx' = request_tx - 1
    /\ nevents' = nevents + 1
    /\ arrivals' = Append(arrivals, OutgoingEvent)
    /\ log' = Append(log, Stdout("Received other MQTT event"))
    /\ UNCHANGED <<pc, cur, packet, data_payload, result, processing_time,
                   response, metrics, requests, now, recv_at, input, output,
                   stage, callers>>

\* connection.iter() yields Err(e).
RecvError ==
    /\ pc = "iter"
    /\ nevents < MaxEvents
    /\ nevents' = nevents + 1
    /\ arrivals' = Append(arrivals, ConnectionError)
    /\ log' = Append(log, Stderr("Connection error"))
    /\ UNCHANGED <<pc, cur, packet, data_payload, result, processing_time,
                   response, metrics, requests, now, recv_at, input, output,
                   stage, callers,
                   request_tx>>

\* serde_json::from_str::<FlexiblePacket> returns Ok(packet).
ParseOk ==
    /\ pc = "parse"
    /\ from_str(cur).ok
    /\ packet' = from_str(cur).packet
    /\ log' = Append(log, [ch |-> "stdout",
                           text |-> "Successfully parsed message with ID",
                           id |-> from_str(cur).packet.id])
    /\ pc' = "convert"
    /\ UNCHANGED <<arrivals, nevents, cur, data_payload, result, processing_time,
                   response, metrics, requests, now, recv_at, input, output,
                   stage, callers,
                   request_tx>>

\* Variant of ParseErr with a plausible slip: the error is unwrapped, which
\* ends the processing thread.
ParseErr_fatal ==
    /\ pc = "parse"
    /\ ~from_str(cur).ok
    /\ log' = Append(log, Stderr("Failed to parse message"))
    /\ pc' = "exited"
    /\ UNCHANGED <<arrivals, nevents, cur, packet, data_payload, result,
                   processing_time, response, metrics, requests, now, recv_at,
                   input, output, stage, callers,
                   request_tx>>

\* serde_json::from_str::<FlexiblePacket> returns Err(e).
ParseErr ==
    /\ pc = "parse"
    /\ ~from_str(cur).ok
    /\ log' = log \o << Stderr("Failed to parse message"),
                        [ch |-> "stderr", text |-> "Raw payload", raw |-> cur] >>
    /\ pc' = "iter"
    /\ UNCHANGED <<arrivals, nevents, cur, packet, data_payload, result,
                   processing_time, response, metrics, requests, now, recv_at,
                   input, output, stage, callers,
                   request_tx>>

\* convert_payload(&packet.payload) returns Some(data_payload).
ConvertSome ==
    /\ pc = "convert"
    /\ convert_payload(packet.payload) # NotRecognized
    /\ data_payload' = convert_payload(packet.payload)
    /\ pc' = "count"
    /\ UNCHANGED <<arrivals, nevents, cur, packet, result, processing_time, response,
                   metrics, requests, log, now, recv_at, input, output, stage,
                   callers,
                   request_tx>>

\* Variants of ConvertNone with a plausible slip.
\* (a) processed_count is incremented before the payload is converted.
ConvertNone_counted ==
    /\ pc = "convert"
    /\ convert_payload(packet.payload) = NotRecognized
    /\ data_payload' = NotRecognized
    /\ metrics' = CountProcessed(metrics)
    /\ log' = log \o << Stderr("Failed to convert payload to DataPayload"),
                        [ch |-> "stdout", text |-> "Raw payload structure",
                         value |-> packet.payload] >>
    /\ pc' = "iter"
    /\ UNCHANGED <<arrivals, nevents, cur, packet, result, processing_time,
                   response, requests, now, recv_at, input, output, stage,
                   callers,
                   request_tx>>
\* (b) a response reporting the failure is published.
ConvertNone_responds ==
    /\ pc = "convert"
    /\ convert_payload(packet.payload) = NotRecognized
    /\ data_payload' = NotRecognized
    /\ requests' = Append(requests,
                          [topic |-> "data/response",
                           payload |-> [packet_id |-> packet.id,
                                        received_at |-> now,
                                        status |-> [msg |-> "unrecognized payload"],
                                        processing_time_ms |-> 0],
                           ok |-> TRUE, from |-> nevents])
    /\ log' = log \o << Stderr("Failed to convert payload to DataPayload"),
                        [ch |-> "stdout", text |-> "Raw payload structure",
                         value |-> packet.payload] >>
    /\ pc' = "iter"
    /\ UNCHANGED <<arrivals, nevents, cur, packet, result, processing_time,
                   response, metrics, now, recv_at, input, output, stage,
                   callers,
                   request_tx>>

\* convert_payload(&packet.payload) returns None.
ConvertNone ==
    /\ pc = "convert"
    /\ convert_payload(packet.payload) = NotRecognized
    /\ data_payload' = NotRecognized
    /\ log' = log \o << Stderr("Failed to convert payload to DataPayload"),
                        [ch |-> "stdout", text |-> "Raw payload structure",
                         value |-> packet.payload] >>
    /\ pc' = "iter"
    /\ UNCHANGED <<arrivals, nevents, cur, packet, result, processing_time, response,
                   metrics, requests, now, recv_at, input, output, stage,
                   callers,
                   request_tx>>

\* metrics.processed_count.fetch_add(1, Ordering::Relaxed)
StepCount ==
    /\ pc = "count"
    /\ metrics' = CountProcessed(metrics)
    /\ pc' = "update"
    /\ UNCHANGED <<arrivals, nevents, cur, packet, data_payload, result,
                   processing_time, response, requests, log, now, recv_at,
                   input, output, stage, callers,
                   request_tx>>

\* metrics.update_count(&data_payload)
StepUpdate ==
    /\ pc = "update"
    /\ metrics' = update_count(metrics, data_payload)
    /\ pc' = "process"
    /\ UNCHANGED <<arrivals, nevents, cur, packet, data_payload, result,
                   processing_time, response, requests, log, now, recv_at,
                   input, output, stage, callers,
                   request_tx>>

\* process_data(&data_payload), then the elapsed time is read.
StepProcess ==
    /\ pc = "process"
    /\ result' = process_data(data_payload)
    /\ \E ms \in ElapsedSamples :
          /\ processing_time' = ms
          /\ now' = now + ms
    /\ pc' = "time"
    /\ UNCHANGED <<arrivals, nevents, cur, packet, data_payload, response, metrics,
                   requests, log, recv_at, input, output, stage, callers,
                   request_tx>>

\* metrics.total_processing_time.fetch_add(processing_time, Relaxed)
StepTime ==
    /\ pc = "time"
    /\ metrics' = AddProcessingTime(metrics, processing_time)
    /\ pc' = "respond"
    /\ UNCHANGED <<arrivals, nevents, cur, packet, data_payload, result,
                   processing_time, response, requests, log, now, recv_at,
                   input, output, stage, callers,
                   request_tx>>

\* Variant of BuildResponse with a plausible slip: the elapsed time is
\* stored in whole seconds.
BuildResponse_secs(pkt, at, status, ms) ==
    [packet_id |-> pkt.id, received_at |-> at, status |-> status,
     processing_time_ms |-> ms \div 1000]

\* let response = DataResponse { .. }
BuildResponse(pkt, at, status, ms) ==
    [packet_id |-> pkt.id, received_at |-> at, status |-> status,
     processing_time_ms |-> ms]

\* Variant of StepRespond with a plausible slip: the id is read from a
\* variable that still holds the id of the previously answered packet.
StepRespond_stale ==
    /\ pc = "respond"
    /\ response' =
          BuildResponse([id |-> IF requests = <<>> THEN packet.id
                                ELSE requests[Len(requests)].payload.packet_id],
                        now, result, processing_time)
    /\ pc' = "publish"
    /\ UNCHANGED <<arrivals, nevents, cur, packet, data_payload, result,
                   processing_time, metrics, requests, log, now, recv_at,
                   input, output, stage, callers,
                   request_tx>>

StepRespond ==
    /\ pc = "respond"
    /\ response' = BuildResponse(packet, now, result, processing_time)
    /\ pc' = "publish"
    /\ UNCHANGED <<arrivals, nevents, cur, packet, data_payload, result,
                   processing_time, metrics, requests, log, now, recv_at,
                   input, output, stage, callers,
                   request_tx>>

\* What one client_clone.publish call hands to the transport; from is the
\* notification whose handling made the call.
PublishCall(resp, ok, from) ==
    [topic |-> "data/response", payload |-> resp, ok |-> ok, from |-> from]

\* serde_json::to_string(&response) cannot fail for a struct of two Strings,
\* a String timestamp and a u64, so its Err arm is not a step of the model.
\* client_clone.publish(..) returns Ok: the request has been put into the
\* request channel, which takes it only while it holds fewer than RequestCap
\* requests; the call waits while the channel is full.
PublishOk ==
    /\ pc = "publish"
    /\ request_tx < RequestCap
    /\ request_tx' = request_tx + 1
    /\ requests' = Append(requests, PublishCall(response, TRUE, nevents))
    /\ log' = log \o << Stdout("Sending response"),
                        Stdout("Response sent successfully") >>
    /\ pc' = "iter"
    /\ UNCHANGED <<arrivals, nevents, cur, packet, data_payload, result,
                   processing_time, response, metrics, now, recv_at, input,
                   output, stage, callers>>

\* Variant of PublishErr with a plausible slip: the result of publish is
\* unwrapped, which ends the processing thread.
PublishErr_fatal ==
    /\ pc = "publish"
    /\ requests' = Append(requests, PublishCall(response, FALSE, nevents))
    /\ log' = log \o << Stdout("Sending response"),
                        Stderr("Failed to send response") >>
    /\ pc' = "exited"
    /\ UNCHANGED <<arrivals, nevents, cur, packet, data_payload, result,
                   processing_time, response, metrics, now, recv_at, input,
                   output, stage, callers,
                   request_tx>>

\* client_clone.publish(..) returns Err(e).
PublishErr ==
    /\ pc = "publish"
    /\ requests' = Append(requests, PublishCall(response, FALSE, nevents))
    /\ log' = log \o << Stdout("Sending response"),
                        Stderr("Failed to send response") >>
    /\ pc' = "iter"
    /\ UNCHANGED <<arrivals, nevents, cur, packet, data_payload, result,
                   processing_time, response, metrics, now, recv_at, input,
                   output, stage, callers,
                   request_tx>>

Next ==
    \/ RecvPublish
    \/ RecvOther
    \/ RecvOutgoing
    \/ RecvError
    \/ ParseOk
    \/ ParseErr
    \/ ConvertSome
    \/ ConvertNone
    \/ StepCount
    \/ StepUpdate
    \/ StepProcess
    \/ StepTime
    \/ StepRespond
    \/ PublishOk
    \/ PublishErr

Spec == Init /\ [][Next]_vars

\* ------------------------------------------------- request channel check
\* The same loop followed through a long run of notifications. Only the
\* position of the thread, the number of notifications and the occupancy of
\* the request channel are followed; the steps between taking a publish and
\* calling client_clone.publish do not touch the channel and are taken as
\* one step, and the histories and counters are not recorded.
burstFrame ==
    <<cur, packet, data_payload, result, processing_time, response, metrics,
      requests, log, now, recv_at, arrivals, input, output, stage, callers>>

\* An incoming publish that parses and decodes: the thread reaches the call
\* of client_clone.publish.
BurstDecoded ==
    /\ pc = "iter"
    /\ nevents < MaxBurst
    /\ nevents' = nevents + 1
    /\ pc' = "publish"
    /\ UNCHANGED <<request_tx, burstFrame>>

\* An incoming publish that is dropped, or any other incoming packet.
BurstDropped ==
    /\ pc = "iter"
    /\ nevents < MaxBurst
    /\ nevents' = nevents + 1
    /\ UNCHANGED <<pc, request_tx, burstFrame>>

\* The event loop takes one request out of the channel.
BurstOutgoing ==
    /\ pc = "iter"
    /\ nevents < MaxBurst
    /\ request_tx > 0
    /\ request_tx' = request_tx - 1
    /\ nevents' = nevents + 1
    /\ UNCHANGED <<pc, burstFrame>>

\* client_clone.publish(..) puts the response into the channel.
BurstPublish ==
    /\ pc = "publish"
    /\ request_tx < RequestCap
    /\ request_tx' = request_tx + 1
    /\ pc' = "iter"
    /\ UNCHANGED <<nevents, burstFrame>>

NextBurst ==
    \/ BurstDecoded
    \/ BurstDropped
    \/ BurstOutgoing
    \/ BurstPublish

SpecBurst == Init /\ [][NextBurst]_vars

\* ------------------------------------------------- decoder check inputs
\* Values tried under each key of a payload mapping; index 0 is "no key".
ValidImage == EncodePayload(SampleImage).pairs[1][2]
ValidSensor == EncodePayload(SampleSensor).pairs[1][2]
ValidCoordinates == EncodePayload(SampleCoordinates).pairs[1][2]
ValidLog == EncodePayload(SampleLog).pairs[1][2]

TextOpts == << JStr("hello"), JStr("h\\u00E9llo"), JInt(5), JNull >>
ImageOpts ==
    << ValidImage,
       JObj(<< <<"comment", JStr("hi")>>, <<"data", JArr(<<>>)>>,
               <<"format", JStr("PNG")>>, <<"height", JInt(1)>>,
               <<"width", JInt(2)>> >>),
       JArr(<< JInt(2), JInt(1), JStr("PNG"), JArr(<< JInt(7) >>) >>),
       JObj(<< <<"width", JInt(2)>>, <<"height", JInt(1)>>,
               <<"format", JStr("PNG")>> >>),
       JObj(<< <<"width", JFloat(200)>>, <<"height", JInt(1)>>,
               <<"format", JStr("PNG")>>, <<"data", JArr(<<>>)>> >>),
       JObj(<< <<"width", JInt(2)>>, <<"height", JInt(1)>>,
               <<"format", JStr("PNG")>>, <<"data", JArr(<< JInt(256) >>)>> >>) >>
SensorOpts ==
    << ValidSensor,
       JObj(<< <<"sensor_id", JStr("s2")>>, <<"temperature", JInt(21)>>,
               <<"humidity", JFloat(4050)>>, <<"pressure", JInt(1000)>> >>),
       JObj(<< <<"sensor_id", JStr("s2")>>, <<"temperature", JStr("21.5")>>,
               <<"humidity", JFloat(4050)>>, <<"pressure", JInt(1000)>> >>),
       JObj(<< <<"sensor_id", JStr("s2")>>, <<"temperature", JInt(21)>>,
               <<"humidity", JFloat(4050)>> >>) >>
CoordOpts ==
    << ValidCoordinates,
       JObj(<< <<"x", JInt(1)>>, <<"y", JInt(2)>> >>),
       JObj(<< <<"x", JStr("1")>>, <<"y", JInt(2)>>, <<"z", JInt(3)>> >>) >>
LogOpts ==
    << ValidLog,
       JObj(<< <<"level", JStr("WARN")>>, <<"message", JStr("hi")>>,
               <<"timestamp", JStr(TsZulu0)>> >>),
       JObj(<< <<"level", JStr("WARN")>>, <<"message", JStr("hi")>>,
               <<"timestamp", JStr(TsBad)>> >>),
       JObj(<< <<"message", JStr("hi")>>, <<"timestamp", JStr(TsCanon1)>> >>) >>
NumberOpts == << JFloat(4225) >>
BlobOpts == << JInt(1) >>

Tags ==
    << "Text", "ImageData", "SensorData", "Coordinates", "LogEntry", "Number",
       "Blob" >>
Opts ==
    << TextOpts, ImageOpts, SensorOpts, CoordOpts, LogOpts, NumberOpts,
       BlobOpts >>
Choices ==
    { <<a, b, c, d, e, f, g>> :
        a \in 0..Len(TextOpts), b \in 0..Len(ImageOpts),
        c \in 0..Len(SensorOpts), d \in 0..Len(CoordOpts),
        e \in 0..Len(LogOpts), f \in 0..Len(NumberOpts),
        g \in 0..Len(BlobOpts) }

RECURSIVE PairsOf(_, _)
PairsOf(c, i) ==
    IF i > Len(Tags) THEN <<>>
    ELSE (IF c[i] = 0 THEN <<>> ELSE << <<Tags[i], Opts[i][c[i]]>> >>)
         \o PairsOf(c, i + 1)
Reverse(seq) == [i \in 1..Len(seq) |-> seq[Len(seq) + 1 - i]]

NonMappings ==
    { JNull, JBool(TRUE), JInt(5), JStr("Text"), JArr(<< JStr("hello") >>),
      JArr(<< JObj(<< <<"Text", JStr("hello")>> >>) >>) }
DuplicateKeyMappings ==
    { JObj(<< <<"Text", JInt(5)>>, <<"Text", JStr("hello")>> >>),
      JObj(<< <<"Text", JStr("hello")>>, <<"Text", JInt(5)>>,
              <<"LogEntry", ValidLog>> >>) }
OtherInputs ==
    {EncodePayload(p) : p \in SamplePayloads}
    \cup NonMappings
    \cup DuplicateKeyMappings

\* ------------------------------------------- decoder check specification
\* One payload text is drawn, parsed as the payload: Value field is, and
\* handed to convert_payload.
InitDecode ==
    /\ InitLoop
    /\ metrics = NewMetrics
    /\ InitCallersIdle
    /\ \/ \E c \in Choices : input = JObj(PairsOf(c, 1))
       \/ \E c \in Choices : input = JObj(Reverse(PairsOf(c, 1)))
       \/ input \in OtherInputs
    /\ output = NotRecognized
    /\ stage = "call"

Decode ==
    /\ stage = "call"
    /\ output' = convert_payload(ParseValue(input))
    /\ stage' = "ret"
    /\ UNCHANGED <<loopVars, metrics, input, callers>>

\* process_data(&data_payload) applied to what the decoder returned.
ProcessDecoded ==
    /\ stage = "ret"
    /\ output # NotRecognized
    /\ result' = process_data(output)
    /\ stage' = "done"
    /\ UNCHANGED <<pc, nevents, cur, packet, data_payload, processing_time,
                   response, requests, log, now, recv_at, arrivals,
                   request_tx, metrics, input, output, callers>>

NextDecode ==
    \/ Decode
    \/ ProcessDecoded

SpecDecode == InitDecode /\ [][NextDecode]_vars

\* ----------------------------------------- record stress specification
\* Concurrent callers sharing one ProcessingMetrics, each performing the
\* three updates the loop performs for a decoded message, one atomic
\* operation per step, in any interleaving.
KindSeq ==
    << "Text", "Number", "Coordinates", "SensorData", "ImageData", "LogEntry" >>
KindOfCaller(c) == KindSeq[((c - 1) % Len(KindSeq)) + 1]
ElapsedOfCaller(c) == c

InitCallers ==
    /\ InitLoop
    /\ InitDecodeIdle
    /\ metrics = NewMetrics
    /\ callers = [c \in 1..NCallers |->
                    [stage |-> "count", kind |-> KindOfCaller(c),
                     ms |-> ElapsedOfCaller(c)]]

\* metrics.processed_count.fetch_add(1, Ordering::Relaxed)
CallerCount(c) ==
    /\ callers[c].stage = "count"
    /\ metrics' = CountProcessed(metrics)
    /\ callers' = [callers EXCEPT ![c].stage = "update"]
    /\ UNCHANGED <<loopVars, decodeVars>>

\* metrics.update_count(&data_payload)
CallerUpdate(c) ==
    /\ callers[c].stage = "update"
    /\ metrics' = update_count(metrics, [kind |-> callers[c].kind])
    /\ callers' = [callers EXCEPT ![c].stage = "time"]
    /\ UNCHANGED <<loopVars, decodeVars>>

\* metrics.total_processing_time.fetch_add(processing_time, Relaxed)
CallerTime(c) ==
    /\ callers[c].stage = "time"
    /\ metrics' = AddProcessingTime(metrics, callers[c].ms)
    /\ callers' = [callers EXCEPT ![c].stage = "done"]
    /\ UNCHANGED <<loopVars, decodeVars>>

NextCallers ==
    \E c \in 1..NCallers : CallerCount(c) \/ CallerUpdate(c) \/ CallerTime(c)

SpecCallers == InitCallers /\ [][NextCallers]_vars

\* ---------------------------------------------------- decoder properties
\* The fixed priority order of section 4.1 and the validity of one tag.
PriorityOrder == <<"Text", "ImageData", "SensorData", "Coordinates", "LogEntry">>
TagValid(tag, v) ==
    CASE tag = "Text" -> IsString(v)
      [] tag = "ImageData" -> ImageDataOk(v)
      [] tag = "SensorData" -> SensorDataOk(v)
      [] tag = "Coordinates" -> CoordinatesOk(v)
      [] tag = "LogEntry" -> LogEntryOk(v)

IsMapping(j) == j.t = "Object"
NoDuplicateKeys(j) == Cardinality(PairKeys(j.pairs)) = Len(j.pairs)
\* Positions in PriorityOrder of the tags present in mapping j, split into
\* the structurally valid and the structurally invalid ones.
PresentTags(j) ==
    {i \in 1..Len(PriorityOrder) : PriorityOrder[i] \in DOMAIN ParseValue(j).map}
ValidTags(j) ==
    {i \in PresentTags(j) :
        TagValid(PriorityOrder[i], ParseValue(j).map[PriorityOrder[i]])}
InvalidTags(j) == PresentTags(j) \ ValidTags(j)
MinOf(S) == CHOOSE i \in S : \A k \in S : i <= k
\* The mapping that holds tag number i of j and nothing else.
SingleTag(j, i) ==
    [t |-> "Object",
     map |-> [k \in {PriorityOrder[i]} |-> ParseValue(j).map[k]]]

\* C1 (as claimed): every payload the producer can serialize, of any of the
\* six variants, is decoded back to that same payload.
RoundTripAllSix ==
    stage = "ret" =>
        \A p \in SamplePayloads : input = EncodePayload(p) => output = p

\* C2: a mapping with two or more structurally valid recognized tags decodes
\* to the variant of the valid tag that is first in the order Text, Image,
\* SensorReading, Coordinates, LogEntry, with the value found under that
\* tag, and writing the keys in the opposite order gives the same result.
DecoderPriority ==
    (stage = "ret" /\ IsMapping(input) /\ Cardinality(ValidTags(input)) >= 2) =>
        /\ output.kind = PriorityOrder[MinOf(ValidTags(input))]
        /\ output = convert_payload(SingleTag(input, MinOf(ValidTags(input))))
        /\ NoDuplicateKeys(input) =>
              output = convert_payload(ParseValue(JObj(Reverse(input.pairs))))
\* Three valid tags written in ascending priority, lowest first.
DecoderPriorityWitness ==
    /\ stage = "ret"
    /\ ValidTags(input) = {3, 4, 5}
    /\ input.pairs[1][1] = "LogEntry"
    /\ output.kind = "SensorData"

\* C3: when a structurally invalid recognized tag precedes, in priority,
\* the first structurally valid one, the result is the variant of that valid
\* tag, exactly as if the mapping held that tag alone: unknown keys and
\* further malformed tags change nothing.
DecoderFallback ==
    (/\ stage = "ret"
     /\ IsMapping(input)
     /\ ValidTags(input) # {}
     /\ \E i \in InvalidTags(input) : i < MinOf(ValidTags(input))) =>
        /\ output.kind = PriorityOrder[MinOf(ValidTags(input))]
        /\ output = convert_payload(SingleTag(input, MinOf(ValidTags(input))))
\* Text, Image and SensorReading malformed, an unknown key, Coordinates valid.
DecoderFallbackWitness ==
    /\ stage = "ret"
    /\ IsMapping(input)
    /\ InvalidTags(input) = {1, 2, 3}
    /\ ValidTags(input) = {4}
    /\ "Blob" \in PairKeys(input.pairs)
    /\ output = SampleCoordinates

\* C4: a payload that is not a mapping, an empty mapping, a mapping without
\* a recognized tag and a mapping whose recognized tags are all malformed
\* each make convert_payload return None, as a value.
DecoderGivesUp ==
    (stage = "ret" /\ (~IsMapping(input) \/ ValidTags(input) = {})) =>
        output = NotRecognized
\* All five recognized tags present and malformed.
DecoderGivesUpWitness ==
    /\ stage = "ret"
    /\ IsMapping(input)
    /\ InvalidTags(input) = {1, 2, 3, 4, 5}
    /\ output = NotRecognized

\* ------------------------------------------------- consume loop properties
IsPublish(ev) == ev.t \in {"Object", "Garbage"}
\* The notification parses as an envelope / also decodes to a variant.
Parses(ev) == IsPublish(ev) /\ from_str(ev).ok
Decodes(ev) ==
    /\ IsPublish(ev)
    /\ LET pkt == from_str(ev)
       IN  pkt.ok /\ convert_payload(pkt.packet.payload) # NotRecognized
\* Notification n has been handled to the end.
Handled(n) == n < nevents \/ (n = nevents /\ pc = "iter")
\* The publish calls made while notification n was being handled.
CallsFrom(n) == {i \in 1..Len(requests) : requests[i].from = n}

RECURSIVE SumTimes(_)
SumTimes(reqs) ==
    IF reqs = <<>> THEN 0
    ELSE reqs[1].payload.processing_time_ms + SumTimes(Tail(reqs))

\* C5: once a message has been handled, exactly one publish call on
\* data/response was made for it if its envelope parsed and its payload
\* decoded, and none otherwise; at no time has a message more than one.
OneResponsePerDecoded ==
    \A n \in 1..Len(arrivals) :
        /\ Cardinality(CallsFrom(n)) <= 1
        /\ \A i \in CallsFrom(n) : requests[i].topic = "data/response"
        /\ Handled(n) =>
              Cardinality(CallsFrom(n)) = (IF Decodes(arrivals[n]) THEN 1 ELSE 0)
\* A decoded message and a dropped one have both been handled.
OneResponseWitness ==
    /\ pc = "iter"
    /\ nevents = 2
    /\ Decodes(arrivals[1])
    /\ Parses(arrivals[2]) /\ ~Decodes(arrivals[2])
    /\ Len(requests) = 1
    /\ requests[1].from = 1

\* C6: every response handed to publish, and the response being built,
\* carries the id of the inbound envelope whose handling produced it and,
\* as status, the result of processing that envelope's payload.
ResponseOf(ev, resp) ==
    /\ IsPublish(ev)
    /\ LET pkt == from_str(ev)
       IN  /\ pkt.ok
           /\ LET decoded == convert_payload(pkt.packet.payload)
              IN  /\ decoded # NotRecognized
                  /\ resp.packet_id = Get(ev.pairs, "id").s
                  /\ resp.status = process_data(decoded)
Correlation ==
    /\ \A i \in 1..Len(requests) :
          ResponseOf(arrivals[requests[i].from], requests[i].payload)
    /\ pc = "publish" => ResponseOf(arrivals[nevents], response)
\* Two responses, for envelopes with different ids and payloads.
CorrelationWitness ==
    /\ Len(requests) = 2
    /\ requests[1].payload.packet_id = "a"
    /\ requests[2].payload.packet_id = "b"
    /\ requests[1].payload.status # requests[2].payload.status

\* C8 (as claimed): in every reachable state processed_count equals the
\* sum of the six per-variant counters.
MetricsAlwaysConsistent == metrics.processed_count = VariantSum(metrics)

\* C8 (amended): processed_count exceeds the sum of the per-variant
\* counters by one exactly between the two increments of one message, and
\* equals it in every other state; whenever the loop is between messages
\* total_processing_time is the sum of the elapsed times of the messages
\* counted, and inside a message it lags by that message's elapsed time
\* until the third update.
MetricsConsistentBetweenUpdates ==
    /\ metrics.processed_count =
          VariantSum(metrics) + (IF pc = "update" THEN 1 ELSE 0)
    /\ metrics.processed_count =
          Len(requests) + (IF pc \in {"update", "process", "time", "respond",
                                     "publish"} THEN 1 ELSE 0)
    /\ metrics.total_processing_time =
          SumTimes(requests) + (IF pc \in {"respond", "publish"}
                                THEN processing_time ELSE 0)
\* The state between the first and the second increment of a message.
MetricsBetweenUpdatesWitness ==
    /\ pc = "update"
    /\ data_payload.kind = "ImageData"
    /\ metrics.processed_count = 2
    /\ VariantSum(metrics) = 1

\* C9: a publish whose bytes do not parse as a FlexiblePacket is dropped:
\* the failure is written to stderr, no publish call is made, no counter
\* changes, and the loop is back at its iterator.
ParseFailureStep ==
    (pc = "parse" /\ ~from_str(cur).ok) =>
        /\ pc' = "iter"
        /\ metrics' = metrics
        /\ requests' = requests
        /\ Len(log') > Len(log)
        /\ log'[Len(log) + 1] = Stderr("Failed to parse message")
ParseFailureDropped == [][ParseFailureStep]_vars
\* An unparseable message was dropped and the next message was answered.
ParseFailureWitness ==
    /\ pc = "iter"
    /\ nevents = 2
    /\ ~Parses(arrivals[1]) /\ IsPublish(arrivals[1])
    /\ Len(requests) = 1
    /\ requests[1].from = 2
    /\ metrics.processed_count = 1

\* C10: a parsed envelope whose payload converts to None is dropped: the
\* failure is written to stderr and the raw payload structure is logged, no
\* publish call is made, no counter changes, and the loop is back at its
\* iterator.
NotRecognizedStep ==
    (pc = "convert" /\ convert_payload(packet.payload) = NotRecognized) =>
        /\ pc' = "iter"
        /\ metrics' = metrics
        /\ requests' = requests
        /\ log' = log \o << Stderr("Failed to convert payload to DataPayload"),
                            [ch |-> "stdout", text |-> "Raw payload structure",
                             value |-> packet.payload] >>
NotRecognizedDropped == [][NotRecognizedStep]_vars
\* An unrecognized payload was dropped and the next message was answered.
NotRecognizedWitness ==
    /\ pc = "iter"
    /\ nevents = 2
    /\ Parses(arrivals[1]) /\ ~Decodes(arrivals[1])
    /\ Len(requests) = 1
    /\ requests[1].from = 2
    /\ metrics.processed_count = 1
    /\ metrics.total_processing_time = 3

\* ------------------------------------------------ record stress properties
CallersPast(stages) == {c \in 1..NCallers : callers[c].stage \in stages}
RECURSIVE SumElapsed(_)
SumElapsed(S) ==
    IF S = {} THEN 0
    ELSE LET c == CHOOSE x \in S : TRUE
         IN  callers[c].ms + SumElapsed(S \ {c})

\* C7: in every interleaving of the callers' atomic updates no update is
\* lost: each counter holds exactly the updates made to it so far, so that
\* once all N callers are done processed_count is N, each per-variant
\* counter is the number of callers of that kind, and
\* total_processing_time is the sum of their elapsed times.
NoLostUpdates ==
    /\ metrics.processed_count =
          Cardinality(CallersPast({"update", "time", "done"}))
    /\ \A k \in Kinds :
          metrics[CounterOf(k)] =
              Cardinality({c \in CallersPast({"time", "done"}) :
                              callers[c].kind = k})
    /\ metrics.total_processing_time = SumElapsed(CallersPast({"done"}))
    /\ (\A c \in 1..NCallers : callers[c].stage = "done") =>
          metrics.processed_count = NCallers
\* All callers done, every kind recorded, Text by two callers.
NoLostUpdatesWitness ==
    /\ \A c \in 1..NCallers : callers[c].stage = "done"
    /\ metrics.processed_count = NCallers
    /\ metrics.text_count = 2
    /\ \A k \in Kinds : metrics[CounterOf(k)] >= 1

\* ---------------------------------------------------- drop diagnostics
\* The log entries written by the step from the current state to the next.
NewEntries == {log'[i] : i \in (Len(log) + 1)..Len(log')}

\* C11: every step that drops a message writes an entry to stderr that gives
\* the reason and, when the envelope parsed, carries the id of that packet.
DropDiagnosedStep ==
    /\ (pc = "parse" /\ pc' = "iter") =>
          \E e \in NewEntries :
              e.ch = "stderr" /\ e.text = "Failed to parse message"
    /\ (pc = "convert" /\ pc' = "iter") =>
          \E e \in NewEntries :
              /\ e.ch = "stderr"
              /\ e.text = "Failed to convert payload to DataPayload"
              /\ "id" \in DOMAIN e
              /\ e.id = packet.id
NoSilentDrops == [][DropDiagnosedStep]_vars

\* ------------------------------------------------------ local recovery
\* C12: a publish call that returns an error is reported on stderr and
\* leaves the loop at its iterator with everything but the log and the call
\* history as it was; a connection error yielded by the iterator is reported
\* on stderr and leaves the loop at its iterator as well.
PublishFailureStep ==
    /\ (/\ pc = "publish"
        /\ Len(requests') > Len(requests)
        /\ ~requests'[Len(requests')].ok) =>
          /\ pc' = "iter"
          /\ log'[Len(log')] = Stderr("Failed to send response")
          /\ metrics' = metrics
          /\ nevents' = nevents
    /\ (/\ Len(arrivals') > Len(arrivals)
        /\ arrivals'[Len(arrivals')] = ConnectionError) =>
          /\ pc = "iter" /\ pc' = "iter"
          /\ log'[Len(log')] = Stderr("Connection error")
          /\ metrics' = metrics
          /\ requests' = requests
PublishFailureRecovered == [][PublishFailureStep]_vars
\* The publish for the first message failed and the second message was
\* decoded, counted and answered.
PublishFailureWitness ==
    /\ pc = "iter"
    /\ nevents = 2
    /\ Len(requests) = 2
    /\ ~requests[1].ok /\ requests[1].from = 1
    /\ requests[2].ok /\ requests[2].from = 2
    /\ metrics.processed_count = 2

\* ------------------------------------------------------ loop never waits
\* C13: the loop waits nowhere but at its iterator: whenever the thread is
\* at the call of client_clone.publish the request channel has room, so the
\* call completes and the loop returns to the iterator.
PublishNeverWaits == pc = "publish" => request_tx < RequestCap

\* ------------------------------------------------ single-consumer order
\* C14: a notification is taken from the iterator only while no message is
\* being handled, the message being handled is always the latest arrival,
\* and every publish call is appended for the latest arrival after the calls
\* of all earlier arrivals, so responses are handed over in arrival order.
OrderingStep ==
    /\ nevents' # nevents => (pc = "iter" /\ nevents' = nevents + 1)
    /\ pc # "iter" => cur = arrivals[nevents]
    /\ requests' # requests =>
          /\ Len(requests') = Len(requests) + 1
          /\ SubSeq(requests', 1, Len(requests)) = requests
          /\ requests'[Len(requests')].from = nevents
          /\ \A i \in 1..Len(requests) : requests[i].from < nevents
ArrivalOrderKept == [][OrderingStep]_vars
\* Packet a arrived before packet b and was answered before it.
ArrivalOrderWitness ==
    /\ pc = "iter"
    /\ Len(requests) = 2
    /\ requests[1].from = 1 /\ requests[1].payload.packet_id = "a"
    /\ requests[2].from = 2 /\ requests[2].payload.packet_id = "b"
    /\ requests[1].ok /\ requests[2].ok

\* ------------------------------------------------- effect on the counters
\* The counter that belongs to each variant.
VariantCounter ==
    [Text |-> "text_count", Number |-> "number_count",
     Coordinates |-> "coordinates_count", SensorData |-> "sensor_count",
     ImageData |-> "image_count", LogEntry |-> "log_count"]

\* C15: a decoded message passes once through the increment of
\* processed_count and once through update_count, which adds 1 to the
\* counter of the decoded variant and leaves every other counter as it was;
\* no other step of the loop changes a per-variant counter, and the response
\* to a SensorData payload carries the sensor result.
CounterFrameStep ==
    /\ pc = "count" =>
          /\ pc' = "update"
          /\ metrics' = [metrics EXCEPT !.processed_count = @ + 1]
    /\ pc = "update" =>
          /\ pc' = "process"
          /\ LET k == convert_payload(packet.payload).kind
             IN  metrics' = [metrics EXCEPT ![VariantCounter[k]] = @ + 1]
    /\ pc' = "count" => pc = "convert"
    /\ pc' = "update" => pc = "count"
    /\ pc \notin {"count", "update"} =>
          \A f \in DOMAIN metrics :
              f # "total_processing_time" => metrics'[f] = metrics[f]
    /\ (pc = "publish" /\ data_payload.kind = "SensorData") =>
          /\ response.status.msg =
                "Sensor data processed: temp={:.1}C, humidity={:.1}%, pressure={:.1}hPa"
          /\ response.status.temp = Fmt1(data_payload.temperature)
          /\ response.status.humidity = Fmt1(data_payload.humidity)
          /\ response.status.pressure = Fmt1(data_payload.pressure)
CounterFrame == [][CounterFrameStep]_vars
\* The producer's sensor packet (21.25, 50.75, 1013.00) has been answered.
CounterFrameWitness ==
    /\ pc = "iter"
    /\ nevents = 1
    /\ arrivals[1] = MasterPacket("a", TsCanon0, SampleSensor)
    /\ metrics = [NewMetrics EXCEPT !.processed_count = 1, !.sensor_count = 1,
                                    !.total_processing_time = 3]
    /\ Len(requests) = 1
    /\ requests[1].payload.status.temp = 212
    /\ requests[1].payload.status.humidity = 508
    /\ requests[1].payload.status.pressure = 10130

\* ------------------------------------------------------- text result
\* C16: the result process_data returns for a Text payload states the
\* number of characters of the text.
TextCharCount ==
    (stage = "done" /\ output.kind = "Text") =>
        result.chars = CharCount(output.text)

\* --------------------------------------------------- response envelope
\* C17: the response built for a message has exactly the four fields of
\* DataResponse: packet_id is the id of the parsed packet, status the result
\* process_data returned, processing_time_ms the elapsed time measured, and
\* received_at a clock reading not earlier than the arrival of the message.
ResponseBuilt ==
    pc = "publish" =>
        /\ DOMAIN response =
              {"packet_id", "received_at", "status", "processing_time_ms"}
        /\ response.packet_id = packet.id
        /\ response.status = result
        /\ result = process_data(data_payload)
        /\ response.processing_time_ms = processing_time
        /\ response.received_at >= recv_at
\* A response for packet b, built 3 ms after the packet arrived.
ResponseBuiltWitness ==
    /\ pc = "publish"
    /\ response.packet_id = "b"
    /\ response.processing_time_ms = 3
    /\ response.received_at = recv_at + 3
    /\ response.status.msg = "Text processed: {} chars"

\* ------------------------------------------------ counters between messages
\* What holds of the counters while the loop is at its iterator.
BetweenMessages ==
    pc = "iter" =>
        /\ metrics.processed_count = Len(requests)
        /\ Len(requests) >=
              Cardinality({i \in 1..Len(requests) : requests[i].ok})
        /\ metrics.total_processing_time = SumTimes(requests)

\* C18: whenever the loop is between two messages processed_count is the
\* number of responses built so far, which is at least the number of
\* successful publish calls, and total_processing_time is the sum of the
\* processing_time_ms of those responses; no step lowers a counter.
CountersStep ==
    /\ BetweenMessages
    /\ BetweenMessages'
    /\ \A f \in DOMAIN metrics : metrics'[f] >= metrics[f]
CountersBetweenMessages == [][CountersStep]_vars
\* Two responses built, 3 ms each, the first publish failed.
CountersBetweenWitness ==
    /\ pc = "iter"
    /\ nevents = 2
    /\ metrics.processed_count = 2
    /\ metrics.total_processing_time = 6
    /\ Len(requests) = 2
    /\ ~requests[1].ok
    /\ requests[2].ok

\* ------------------------------------------- outcome depends on payload
\* Arrivals i and j are envelopes that parse and carry the same payload.
SamePayload(i, j) ==
    /\ arrivals[i].t = "Object" /\ arrivals[j].t = "Object"
    /\ Has(arrivals[i].pairs, "payload") /\ Has(arrivals[j].pairs, "payload")
    /\ Get(arrivals[i].pairs, "payload") = Get(arrivals[j].pairs, "payload")
    /\ Parses(arrivals[i]) /\ Parses(arrivals[j])
VariantCounters == {VariantCounter[k] : k \in Kinds}

\* C19: two handled envelopes that parse and carry the same payload, whatever
\* their data_type, timestamp and metadata, are both dropped or both
\* answered, with the same status; when they are the only two arrivals they
\* have raised the same per-variant counter, which then stands at 2 while
\* the others stand at 0.
OutcomeByPayload ==
    \A i \in 1..Len(arrivals) : \A j \in (i + 1)..Len(arrivals) :
        (Handled(j) /\ SamePayload(i, j)) =>
            /\ (CallsFrom(i) = {}) <=> (CallsFrom(j) = {})
            /\ \A a \in CallsFrom(i) : \A b \in CallsFrom(j) :
                  requests[a].payload.status = requests[b].payload.status
            /\ Len(arrivals) = 2 =>
                  /\ \A f \in VariantCounters : metrics[f] \in {0, 2}
                  /\ VariantSum(metrics) = metrics.processed_count
\* The producer's sensor packet and a sensor packet labelled "text" with no
\* timestamp and no metadata, both answered alike.
OutcomeByPayloadWitness ==
    /\ pc = "iter"
    /\ nevents = 2
    /\ arrivals[1] = MasterPacket("a", TsCanon0, SampleSensor)
    /\ arrivals[2] = JObj(<< <<"id", JStr("b")>>, <<"data_type", JStr("text")>>,
                             <<"payload", EncodePayload(SampleSensor)>> >>)
    /\ Len(requests) = 2
    /\ requests[1].payload.status = requests[2].payload.status
    /\ metrics.sensor_count = 2

\* ------------------------------------------------------- Number counter
\* C20: the Number counter is 0 in every state of the loop, whatever has
\* arrived, the producer's Number packets included.
NumberNeverCounted == metrics.number_count = 0
\* The producer's Number packet was handled (and dropped), then another
\* packet was answered.
NumberNeverCountedWitness ==
    /\ pc = "iter"
    /\ nevents = 2
    /\ arrivals[1] = MasterPacket("a", TsCanon0, SampleNumber)
    /\ CallsFrom(1) = {}
    /\ CallsFrom(2) # {}
    /\ metrics.processed_count = 1
    /\ metrics.number_count = 0

====
